---- MODULE Spec2Model ----
(***************************************************************************)
(* Rotating file logging of adk_docker_uv: setup_file_logging              *)
(* (utils/log_config.py) and the server entry point main() (server.py).    *)
(*                                                                         *)
(* The root logger, the file system (directories, directory entries and    *)
(* the files they name) and standard output are the state.  The handler    *)
(* that setup_file_logging constructs is logging.handlers                  *)
(* .RotatingFileHandler; its emit / shouldRollover / doRollover are        *)
(* modelled as CPython 3.11 defines them.                                  *)
(***************************************************************************)
EXTENDS Integers, Sequences, FiniteSets, TLC

\* ------------------------------------------------------------------ bounds
\* Calls of setup_file_logging, and log records created, in one process.
MaxSetups == 2
MaxLogs == 2
\* The same where rotation is looked at: fewer calls, more records.
MaxRotateSetups == 1
MaxRotateLogs == 5

\* ------------------------------------------------------------------ inputs
\* log_config.py:31, the level names setup_file_logging accepts.
ValidLevels == {"DEBUG", "INFO", "WARNING", "ERROR", "CRITICAL"}
\* Level arguments tried: the valid names, a wrong-case name, and a name the
\* logging module itself knows (WARN) but the validation does not.
LevelInputs == ValidLevels \cup {"warning", "WARN"}
\* Severities of the log calls (debug, info, warning, error, critical).
Severities == {10, 20, 30, 40, 50}
\* Paths are sequences of segments, relative to the working directory << >>.
\* <<"ro">> is a directory that exists and is read-only.
LogDirInputs == {<<"logs">>, <<"t", "logs">>, <<"ro">>, <<"ro", "logs">>}
\* Loggers the application logs through: the root logger and a named child
\* (logging.getLogger("test_level")), which has no level and no handler of
\* its own and propagates to the root.
Loggers == {"root", "test_level"}

VARIABLES
    rootLevel,      \* logging.root.level
    rootHandlers,   \* logging.root.handlers, a sequence of handler records
    dirs,           \* the directories that exist
    roDirs,         \* directories in which nothing can be created or opened for writing
    entries,        \* directory entries: file name -> index into inodes
    inodes,         \* the files: each a sequence of records [id, len]
    stdout,         \* the lines printed to standard output
    nSetups,        \* calls of setup_file_logging so far
    nextId,         \* id of the next log record
    pyRollsEmpty,   \* the interpreter rolls an empty log file over (CPython < 3.12)
    levelArg,       \* log_level of the latest call of setup_file_logging that returned
    lastOp,         \* the last operation, its arguments and its outcome
    pc,             \* where each request-handling task is in its log call
    env,            \* the process environment: variable -> value, for the variables set
    mainPc,         \* where main() is
    started         \* uvicorn.run has been called

vars == <<rootLevel, rootHandlers, dirs, roDirs, entries, inodes, stdout,
          nSetups, nextId, pyRollsEmpty, levelArg, lastOp, pc, env, mainPc,
          started>>

\* ------------------------------------------------------------- the levels
\* logging._checkLevel on a level name (Logger.setLevel, log_config.py:59):
\* the number logging._nameToLevel gives the name, -1 for the ValueError
\* raised on a name it does not hold.
CheckLevel(name) ==
    CASE name = "CRITICAL" -> 50
      [] name = "FATAL" -> 50
      [] name = "ERROR" -> 40
      [] name = "WARNING" -> 30
      [] name = "WARN" -> 30
      [] name = "INFO" -> 20
      [] name = "DEBUG" -> 10
      [] name = "NOTSET" -> 0
      [] OTHER -> -1

\* log_config.py:31-33 without the substitution: the level is passed on as
\* received.
ResolveLevelNoFallback(log_level) ==
    [level |-> log_level,
     out |-> IF log_level \notin ValidLevels
               THEN <<[received |-> log_level, fallback |-> "INFO"]>>
               ELSE << >>]

\* log_config.py:31-33: the level the call goes on with and what it prints.
\* A printed line "WARNING: Received log_level: '<received>'. Defaulting to
\* '<fallback>'." is kept as its two variable parts.
ResolveLevel(log_level) ==
    IF log_level \notin ValidLevels
      THEN [level |-> "INFO",
            out |-> <<[received |-> log_level, fallback |-> "INFO"]>>]
      ELSE [level |-> log_level, out |-> << >>]

\* -------------------------------------------------------- the file system
Parent(p) == SubSeq(p, 1, Len(p) - 1)

\* A file name: the directory, the base name and the rotation index
\* (0: "app.log", k: "app.log.k").
FileName(dir, fname, k) == <<dir, fname, k>>

\* Path.mkdir(parents=False, exist_ok=True): a missing parent is an error.
MkdirNoParents(p, d, ro) ==
    IF p \in d THEN [raised |-> "none", dirs |-> d]
    ELSE IF Parent(p) \notin d THEN [raised |-> "FileNotFoundError", dirs |-> d]
    ELSE IF Parent(p) \in ro THEN [raised |-> "PermissionError", dirs |-> d]
    ELSE [raised |-> "none", dirs |-> d \cup {p}]

\* Path.mkdir(parents=True, exist_ok=True) (log_config.py:42): an existing
\* directory is left alone; a missing one is created after its missing
\* parents; creating in a read-only directory raises.
RECURSIVE Mkdir(_, _, _)
Mkdir(p, d, ro) ==
    IF p \in d THEN [raised |-> "none", dirs |-> d]
    ELSE IF Parent(p) \in d
      THEN IF Parent(p) \in ro
             THEN [raised |-> "PermissionError", dirs |-> d]
             ELSE [raised |-> "none", dirs |-> d \cup {p}]
      ELSE LET up == Mkdir(Parent(p), d, ro)
           IN IF up.raised # "none" THEN up
              ELSE [raised |-> "none", dirs |-> up.dirs \cup {p}]

Exists(e, f) == f \in DOMAIN e

\* os.remove
Remove(e, f) == [x \in DOMAIN e \ {f} |-> e[x]]

\* os.rename: dst names the file src named, src names nothing.
Rename(e, src, dst) ==
    [x \in (DOMAIN e \ {src}) \cup {dst} |-> IF x = dst THEN e[src] ELSE e[x]]

\* FileHandler._open in mode 'a' (RotatingFileHandler forces 'a' when
\* maxBytes > 0, and 'a' is the default): the file is created when missing
\* and kept as it is otherwise.  Opening for writing in a read-only
\* directory raises.
Open(e, ino, f, ro) ==
    IF f[1] \in ro THEN [raised |-> "PermissionError", entries |-> e, inodes |-> ino, stream |-> 0]
    ELSE IF Exists(e, f) THEN [raised |-> "none", entries |-> e, inodes |-> ino, stream |-> e[f]]
    ELSE [raised |-> "none",
          entries |-> [x \in DOMAIN e \cup {f} |-> IF x = f THEN Len(ino) + 1 ELSE e[x]],
          inodes |-> Append(ino, << >>),
          stream |-> Len(ino) + 1]

RECURSIVE Size(_)
\* The size of a file: the lengths of its records.
Size(content) ==
    IF content = << >> THEN 0 ELSE Head(content).len + Size(Tail(content))

Ids(content) == {content[i].id : i \in 1..Len(content)}

\* ----------------------------------------------- the rotating file handler
\* RotatingFileHandler(log_path, maxBytes, backupCount, encoding)
\* (log_config.py:50-55) once its file is open: the handler's fields.  A
\* handler's own level stays NOTSET (0): the code sets only a formatter.
\* Handler.__init__ creates the handler's lock, free at first.
Handler(dir, fname, max_bytes, backup_count, stream) ==
    [dir |-> dir, fname |-> fname, maxBytes |-> max_bytes,
     backupCount |-> backup_count, stream |-> stream, level |-> 0,
     lock |-> "free"]

BaseFile(h) == FileName(h.dir, h.fname, 0)

\* RotatingFileHandler.shouldRollover with > for >=.
ShouldRolloverStrict(h, len, ino, rolls_empty) ==
    /\ h.maxBytes > 0
    /\ rolls_empty \/ Size(ino[h.stream]) # 0
    /\ Size(ino[h.stream]) + len > h.maxBytes

\* RotatingFileHandler.shouldRollover: with maxBytes > 0, the file is rolled
\* over when the position at the end of the stream plus the length of the
\* formatted record and its newline reaches maxBytes.  CPython from 3.12 on
\* never rolls an empty file over (gh-116263); earlier versions do.
ShouldRollover(h, len, ino, rolls_empty) ==
    /\ h.maxBytes > 0
    /\ rolls_empty \/ Size(ino[h.stream]) # 0
    /\ Size(ino[h.stream]) + len >= h.maxBytes

RECURSIVE ShiftBackups(_, _, _)
\* The loop of doRollover, for i from backupCount - 1 down to 1: "name.i"
\* becomes "name.(i+1)", which is removed first when it exists.
ShiftBackups(i, h, st) ==
    IF i < 1 THEN st
    ELSE LET sfn == FileName(h.dir, h.fname, i)
             dfn == FileName(h.dir, h.fname, i + 1)
             e == st.entries
             st1 == IF Exists(e, sfn)
                      THEN [entries |-> Rename(IF Exists(e, dfn) THEN Remove(e, dfn) ELSE e,
                                               sfn, dfn),
                            removed |-> st.removed \cup
                                          (IF Exists(e, dfn) THEN {dfn} ELSE {})]
                      ELSE st
         IN ShiftBackups(i - 1, h, st1)

\* doRollover after the loop: "name.1" is removed if it is still there and
\* the base file becomes "name.1".
RotateBase(h, shifted) ==
    LET base == BaseFile(h)
        one == FileName(h.dir, h.fname, 1)
        stale == Exists(shifted.entries, one)
        e == IF stale THEN Remove(shifted.entries, one) ELSE shifted.entries
    IN [entries |-> IF Exists(e, base) THEN Rename(e, base, one) ELSE e,
        removed |-> shifted.removed \cup (IF stale THEN {one} ELSE {})]

\* The end of doRollover: self.stream = self._open(), on the base file name
\* (mode 'a').
Reopen(h, st, ino, ro) ==
    LET op == Open(st.entries, ino, BaseFile(h), ro)
    IN [entries |-> op.entries, inodes |-> op.inodes, stream |-> op.stream,
        removed |-> st.removed]

\* doRollover that shifts every backup, the last one included, so that a
\* backup with index backupCount + 1 appears.
DoRolloverKeepAll(h, e, ino, ro) ==
    Reopen(h,
           RotateBase(h, ShiftBackups(h.backupCount, h,
                                      [entries |-> e, removed |-> {}])),
           ino, ro)

\* RotatingFileHandler.doRollover: the stream is closed; with
\* backupCount > 0 the backups are shifted up, "name.1" is removed if it is
\* still there and the base file becomes "name.1"; then the base file is
\* opened again (mode 'a').  With backupCount = 0 nothing is renamed, so the
\* same file is opened again with its contents.
DoRollover(h, e, ino, ro) ==
    Reopen(h,
           IF h.backupCount > 0
             THEN RotateBase(h, ShiftBackups(h.backupCount - 1, h,
                                             [entries |-> e, removed |-> {}]))
             ELSE [entries |-> e, removed |-> {}],
           ino, ro)

\* FileHandler.emit: one write of the formatted record and its terminator
\* to the stream r.stream the handler has after the rollover, if any.
Write(h, rec, roll, r) ==
    [entries |-> r.entries,
     inodes |-> [r.inodes EXCEPT ![r.stream] =
                    Append(@, [id |-> rec.id, len |-> rec.len])],
     handler |-> [h EXCEPT !.stream = r.stream],
     rolled |-> roll,
     removed |-> r.removed]

\* BaseRotatingHandler.emit: roll over if shouldRollover says so, then
\* FileHandler.emit.
Emit(h, rec, e, ino, ro, rolls_empty) ==
    Write(h, rec, ShouldRollover(h, rec.len, ino, rolls_empty),
          IF ShouldRollover(h, rec.len, ino, rolls_empty)
            THEN DoRollover(h, e, ino, ro)
            ELSE [entries |-> e, inodes |-> ino, stream |-> h.stream,
                  removed |-> {}])

\* Handler.handle of the i-th handler done: what its emit r did, added to
\* what the log call did so far.
Handle(i, st, r) ==
    [handlers |-> [st.handlers EXCEPT ![i] = r.handler],
     entries |-> r.entries,
     inodes |-> r.inodes,
     wrote |-> st.wrote \cup {i},
     rolled |-> st.rolled \cup (IF r.rolled THEN {i} ELSE {}),
     removed |-> st.removed \cup r.removed]

RECURSIVE CallHandlers(_, _, _, _, _)
\* Logger.callHandlers for a logger that propagates to the root: every
\* handler of the root whose level the record reaches handles it, in the
\* order of the handler list.  st carries the handlers, the file system and
\* what the call did so far.
CallHandlers(i, rec, st, ro, rolls_empty) ==
    IF i > Len(st.handlers) THEN st
    ELSE IF rec.levelno < st.handlers[i].level
      THEN CallHandlers(i + 1, rec, st, ro, rolls_empty)
      ELSE CallHandlers(i + 1, rec,
                        Handle(i, st, Emit(st.handlers[i], rec, st.entries,
                                           st.inodes, ro, rolls_empty)),
                        ro, rolls_empty)

\* Logger.getEffectiveLevel: the first non-zero level from the logger up to
\* the root.  Only the root is ever given a level (log_config.py:59).
GetEffectiveLevel(logger, root_level) ==
    LET own == IF logger = "root" THEN root_level ELSE 0
    IN IF own # 0 THEN own ELSE root_level

\* Logger.isEnabledFor: logger.info() and the like create a record only for
\* a level at or above the logger's effective level.
IsEnabledFor(logger, levelno, root_level) ==
    levelno >= GetEffectiveLevel(logger, root_level)

\* ------------------------------------------------------ setup_file_logging
\* root.setLevel placed before the directory and the file are set up: the
\* level changes although the call then fails.
SetLevelFirst(raised, old, new) == IF new < 0 THEN old ELSE new

\* The call never reaching root.setLevel.
SetLevelNever(raised, old, new) == old

\* root.setLevel(log_level) at log_config.py:59, after everything that can
\* fail: it is reached only when nothing was raised before it, and raises
\* itself (new < 0) on an unknown name.
SetLevel(raised, old, new) == IF raised # "none" \/ new < 0 THEN old ELSE new

\* addHandler that installs the handler in place of the ones there.
AddHandlerReplacing(handlers, h) == <<h>>

\* root.addHandler(handler) at log_config.py:60: the new handler object is
\* appended to the root logger's handler list.
AddHandler(handlers, h) == Append(handlers, h)

\* setup_file_logging (log_config.py:8-60) on the state st =
\* [rootLevel, rootHandlers, dirs, entries, inodes, stdout], with the
\* read-only directories ro: the state it leaves and what it raised.
SetupFileLogging(log_level, log_dir, log_filename, max_bytes, backup_count, st, ro) ==
    LET res == ResolveLevel(log_level)
        mk == Mkdir(log_dir, st.dirs, ro)
        log_path == FileName(log_dir, log_filename, 0)
        op == IF mk.raised = "none"
                THEN Open(st.entries, st.inodes, log_path, ro)
                ELSE [raised |-> mk.raised, entries |-> st.entries,
                      inodes |-> st.inodes, stream |-> 0]
        handler == Handler(log_dir, log_filename, max_bytes, backup_count, op.stream)
        lvl == CheckLevel(res.level)
        raised == IF op.raised # "none" THEN op.raised
                  ELSE IF lvl < 0 THEN "ValueError" ELSE "none"
    IN [rootLevel |-> SetLevel(op.raised, st.rootLevel, lvl),
        rootHandlers |-> IF raised = "none"
                           THEN AddHandler(st.rootHandlers, handler)
                           ELSE st.rootHandlers,
        dirs |-> mk.dirs,
        entries |-> op.entries,
        inodes |-> op.inodes,
        stdout |-> st.stdout \o res.out,
        raised |-> raised]

\* ---------------------------------------------------------------- actions
NoOp ==
    [op |-> "none", log_level |-> "", log_dir |-> << >>, log_filename |-> "",
     max_bytes |-> 0, backup_count |-> 0, raised |-> "none", printed |-> 0,
     logger |-> "", levelno |-> 0, len |-> 0, id |-> 0, created |-> FALSE,
     wrote |-> {}, rolled |-> {}, removed |-> {}]

\* What an earlier run left in <<"logs">>: a log file with two old records
\* (4 bytes), a file of somebody else and, in the third case, a backup from a
\* configuration that kept more backups than any tried here.
OldLog == FileName(<<"logs">>, "app.log", 0)
OtherFile == FileName(<<"logs">>, "notes.txt", 0)
StaleBackup == FileName(<<"logs">>, "app.log", 3)
OldRecord == [id |-> 0, len |-> 2]
StaleRecord == [id |-> -1, len |-> 2]

\* levelArg while no call of setup_file_logging has returned.
NoLevel == "<no call>"

\* The request-handling tasks.
Tasks == {"t1", "t2"}
NoRecord == [id |-> 0, len |-> 0, levelno |-> 0]
Idle == [at |-> "idle", i |-> 0, rec |-> NoRecord, roll |-> FALSE]

\* A process that has just started: the root logger as the logging module
\* creates it (level WARNING, no handler), nothing printed.
Started ==
    /\ nSetups = 0
    /\ nextId = 1
    /\ stdout = << >>
    /\ levelArg = NoLevel
    /\ lastOp = NoOp
    /\ rootLevel = CheckLevel("WARNING")
    /\ rootHandlers = << >>
    /\ pc = [t \in Tasks |-> Idle]
    /\ started = FALSE

Init ==
    /\ Started
    /\ env = << >>
    /\ mainPc = "none"
    /\ roDirs = {<<"ro">>}
    /\ \/ /\ dirs = {<< >>, <<"ro">>}
          /\ entries = << >>
          /\ inodes = << >>
       \/ /\ dirs = {<< >>, <<"ro">>, <<"logs">>}
          /\ entries = (OldLog :> 1) @@ (OtherFile :> 2)
          /\ inodes = << <<OldRecord, OldRecord>>, <<OldRecord>> >>
       \/ /\ dirs = {<< >>, <<"ro">>, <<"logs">>}
          /\ entries = (OldLog :> 1) @@ (OtherFile :> 2) @@ (StaleBackup :> 3)
          /\ inodes = << <<OldRecord, OldRecord>>, <<OldRecord>>, <<StaleRecord>> >>
    /\ pyRollsEmpty \in BOOLEAN

\* A call of setup_file_logging: what it does to the root logger, the file
\* system and standard output.
SetupCall(log_level, log_dir, log_filename, max_bytes, backup_count) ==
    /\ LET r == SetupFileLogging(log_level, log_dir, log_filename, max_bytes,
                                 backup_count,
                                 [rootLevel |-> rootLevel, rootHandlers |-> rootHandlers,
                                  dirs |-> dirs, entries |-> entries,
                                  inodes |-> inodes, stdout |-> stdout],
                                 roDirs)
       IN /\ rootLevel' = r.rootLevel
          /\ rootHandlers' = r.rootHandlers
          /\ dirs' = r.dirs
          /\ entries' = r.entries
          /\ inodes' = r.inodes
          /\ stdout' = r.stdout
          /\ lastOp' = [NoOp EXCEPT !.op = "setup", !.log_level = log_level,
                                    !.log_dir = log_dir, !.log_filename = log_filename,
                                    !.max_bytes = max_bytes,
                                    !.backup_count = backup_count,
                                    !.raised = r.raised,
                                    !.printed = Len(r.stdout) - Len(stdout)]
          /\ levelArg' = IF r.raised = "none" THEN log_level ELSE levelArg
    /\ nSetups' = nSetups + 1
    /\ UNCHANGED <<roDirs, nextId, pyRollsEmpty>>

\* A call of setup_file_logging by the application.
Setup(log_level, log_dir, log_filename, max_bytes, backup_count, max_setups) ==
    /\ nSetups < max_setups
    /\ SetupCall(log_level, log_dir, log_filename, max_bytes, backup_count)
    /\ UNCHANGED <<pc, env, mainPc, started>>

\* A log call (logger.debug ... logger.critical) with a message whose
\* formatted length, terminator included, is len: Logger.isEnabledFor, then
\* Logger.callHandlers with the record.
LogCall(logger, levelno, len) ==
    /\ LET created == IsEnabledFor(logger, levelno, rootLevel)
           rec == [id |-> nextId, len |-> len, levelno |-> levelno]
           r == CallHandlers(1, rec,
                             [handlers |-> rootHandlers, entries |-> entries,
                              inodes |-> inodes, wrote |-> {}, rolled |-> {},
                              removed |-> {}],
                             roDirs, pyRollsEmpty)
       IN IF created
            THEN /\ rootHandlers' = r.handlers
                 /\ entries' = r.entries
                 /\ inodes' = r.inodes
                 /\ nextId' = nextId + 1
                 /\ lastOp' = [NoOp EXCEPT !.op = "log", !.logger = logger,
                                           !.levelno = levelno, !.len = len,
                                           !.id = nextId, !.created = TRUE,
                                           !.wrote = r.wrote, !.rolled = r.rolled,
                                           !.removed = r.removed]
            ELSE /\ UNCHANGED <<rootHandlers, entries, inodes, nextId>>
                 /\ lastOp' = [NoOp EXCEPT !.op = "log", !.logger = logger,
                                           !.levelno = levelno, !.len = len]
    /\ UNCHANGED <<rootLevel, dirs, roDirs, stdout, nSetups, pyRollsEmpty, levelArg>>

\* A log call by the application, single-threaded.
Log(logger, levelno, len, max_logs) ==
    /\ nextId <= max_logs
    /\ LogCall(logger, levelno, len)
    /\ UNCHANGED <<pc, env, mainPc, started>>

\* One step of the process: a call of setup_file_logging or a log call, with
\* arguments from the given sets, within the given numbers of calls.
Step(levels, log_dirs, byte_limits, backup_counts, loggers, severities, lens, max_setups, max_logs) ==
    \/ \E log_level \in levels, log_dir \in log_dirs,
          max_bytes \in byte_limits, backup_count \in backup_counts :
            Setup(log_level, log_dir, "app.log", max_bytes, backup_count, max_setups)
    \/ \E logger \in loggers, levelno \in severities, len \in lens :
            Log(logger, levelno, len, max_logs)

\* Levels: every level argument, logger and severity; one directory, one
\* handler configuration (3 bytes, 1 backup) and records of one byte.
Next ==
    Step(LevelInputs, {<<"logs">>}, {3}, {1}, Loggers, Severities, {1},
         MaxSetups, MaxLogs)

Spec == Init /\ [][Next]_vars

\* Directories: every directory argument (missing, nested, existing,
\* read-only); a valid and an invalid level, one logger, one severity.
NextFiles ==
    Step({"DEBUG", "INVALID"}, LogDirInputs, {3}, {1}, {"test_level"}, {20}, {1},
         MaxSetups, MaxLogs)

SpecFiles == Init /\ [][NextFiles]_vars

\* Rotation: every handler configuration (maxBytes 0 or 3, backupCount 0, 1
\* or 2) and records shorter and longer than maxBytes; one directory, one
\* level, one logger, one severity.
NextRotate ==
    Step({"INFO"}, {<<"logs">>}, {0, 3}, {0, 1, 2}, {"root"}, {20}, {1, 4},
         MaxRotateSetups, MaxRotateLogs)

SpecRotate == Init /\ [][NextRotate]_vars

\* ------------------------------------------------- concurrent log calls
\* Log records created by the tasks.
MaxTaskLogs == 3

\* A lock that anybody can take at any time.
CanAcquireAlways(lock, t) == TRUE

\* Handler.acquire: the handler's lock (created with the handler,
\* log_config.py:50) is taken when it is free; a task that finds it held
\* waits.
CanAcquire(lock, t) == lock = "free"

\* The process once setup_file_logging has run at startup, before the tasks
\* start: one handler (3 bytes, 1 or 2 backups) on a fresh directory.
InitTasks ==
    /\ roDirs = {<<"ro">>}
    /\ pyRollsEmpty \in BOOLEAN
    /\ env = << >>
    /\ mainPc = "none"
    /\ started = FALSE
    /\ pc = [t \in Tasks |-> Idle]
    /\ nSetups = 1
    /\ nextId = 1
    /\ lastOp = NoOp
    /\ \E backup_count \in {1, 2} :
          LET r == SetupFileLogging("INFO", <<"logs">>, "app.log", 3, backup_count,
                                    [rootLevel |-> CheckLevel("WARNING"),
                                     rootHandlers |-> << >>,
                                     dirs |-> {<< >>, <<"ro">>},
                                     entries |-> << >>, inodes |-> << >>,
                                     stdout |-> << >>],
                                    roDirs)
          IN /\ rootLevel = r.rootLevel
             /\ rootHandlers = r.rootHandlers
             /\ dirs = r.dirs
             /\ entries = r.entries
             /\ inodes = r.inodes
             /\ stdout = r.stdout
             /\ levelArg = "INFO"

\* What a task's step leaves alone.
TaskFrame == <<rootLevel, dirs, roDirs, stdout, nSetups, pyRollsEmpty, levelArg,
               lastOp, env, mainPc, started>>

\* Logger.callHandlers going on to the handler after the i-th, or returning.
NextHandler(t, i) ==
    IF i < Len(rootHandlers)
      THEN [pc[t] EXCEPT !.at = "acquire", !.i = i + 1, !.roll = FALSE]
      ELSE Idle

\* A task's log call up to Handler.handle of the first handler: the record
\* is created if the logger is enabled for its level.
TaskCall(t, logger, levelno, len) ==
    /\ pc[t].at = "idle"
    /\ nextId <= MaxTaskLogs
    /\ IsEnabledFor(logger, levelno, rootLevel)
    /\ rootHandlers # << >>
    /\ pc' = [pc EXCEPT ![t] = [at |-> "acquire", i |-> 1,
                                rec |-> [id |-> nextId, len |-> len,
                                         levelno |-> levelno],
                                roll |-> FALSE]]
    /\ nextId' = nextId + 1
    /\ UNCHANGED <<rootHandlers, entries, inodes>>
    /\ UNCHANGED TaskFrame

\* Handler.handle: self.acquire().
TaskAcquire(t) ==
    /\ pc[t].at = "acquire"
    /\ CanAcquire(rootHandlers[pc[t].i].lock, t)
    /\ rootHandlers' = [rootHandlers EXCEPT ![pc[t].i].lock = t]
    /\ pc' = [pc EXCEPT ![t].at = "check"]
    /\ UNCHANGED <<entries, inodes, nextId>>
    /\ UNCHANGED TaskFrame

\* BaseRotatingHandler.emit: if self.shouldRollover(record).
TaskShouldRollover(t) ==
    /\ pc[t].at = "check"
    /\ LET roll == ShouldRollover(rootHandlers[pc[t].i], pc[t].rec.len, inodes,
                                  pyRollsEmpty)
       IN pc' = [pc EXCEPT ![t].roll = roll,
                           ![t].at = IF roll THEN "roll" ELSE "write"]
    /\ UNCHANGED <<rootHandlers, entries, inodes, nextId>>
    /\ UNCHANGED TaskFrame

\* BaseRotatingHandler.emit: self.doRollover().
TaskDoRollover(t) ==
    /\ pc[t].at = "roll"
    /\ LET r == DoRollover(rootHandlers[pc[t].i], entries, inodes, roDirs)
       IN /\ entries' = r.entries
          /\ inodes' = r.inodes
          /\ rootHandlers' = [rootHandlers EXCEPT ![pc[t].i].stream = r.stream]
    /\ pc' = [pc EXCEPT ![t].at = "write"]
    /\ UNCHANGED nextId
    /\ UNCHANGED TaskFrame

\* FileHandler.emit: stream.write(msg + self.terminator) on the handler's
\* current stream.
TaskWrite(t) ==
    /\ pc[t].at = "write"
    /\ inodes' = [inodes EXCEPT ![rootHandlers[pc[t].i].stream] =
                     Append(@, [id |-> pc[t].rec.id, len |-> pc[t].rec.len])]
    /\ pc' = [pc EXCEPT ![t].at = "release"]
    /\ UNCHANGED <<rootHandlers, entries, nextId>>
    /\ UNCHANGED TaskFrame

\* Handler.handle: finally self.release(); then the next handler, if any.
TaskRelease(t) ==
    /\ pc[t].at = "release"
    /\ rootHandlers' = [rootHandlers EXCEPT ![pc[t].i].lock = "free"]
    /\ pc' = [pc EXCEPT ![t] = NextHandler(t, pc[t].i)]
    /\ UNCHANGED <<entries, inodes, nextId>>
    /\ UNCHANGED TaskFrame

NextTasks ==
    \/ \E t \in Tasks, len \in {1, 4} : TaskCall(t, "test_level", 20, len)
    \/ \E t \in Tasks : TaskAcquire(t)
    \/ \E t \in Tasks : TaskShouldRollover(t)
    \/ \E t \in Tasks : TaskDoRollover(t)
    \/ \E t \in Tasks : TaskWrite(t)
    \/ \E t \in Tasks : TaskRelease(t)

SpecTasks == InitTasks /\ [][NextTasks]_vars

\* ------------------------------------------------------------------ main()
\* log_config.py:13 and :15, the defaults main() leaves in place.
DefaultMaxBytes == 1048576
DefaultBackupCount == 5
\* Log records created while the server runs.
MaxServeLogs == 2

\* os.getenv(key, default)
Getenv(e, key, default) == IF key \in DOMAIN e THEN e[key] ELSE default

\* The log directory chosen without looking at K_SERVICE.
MainLogDirLocal(e) == <<".log">>

\* server.py:73: "/tmp" if os.getenv("K_SERVICE") else ".log"; an unset
\* variable gives None and an empty one "", and both are false.
MainLogDir(e) ==
    IF "K_SERVICE" \in DOMAIN e /\ e["K_SERVICE"] # "" THEN <<"/tmp">> ELSE <<".log">>

\* server.py:79: int(os.getenv("PORT", 8000)) raises ValueError on a value
\* that is no number.
PortRaises(e) == "PORT" \in DOMAIN e /\ e["PORT"] \notin {"8000", "8080"}

\* The environments main() is started in: each variable unset, empty or set.
Environments ==
    {l @@ k @@ p :
        l \in {<< >>} \cup {"LOG_LEVEL" :> v : v \in {"", "DEBUG", "ERROR", "verbose"}},
        k \in {<< >>} \cup {"K_SERVICE" :> v : v \in {"", "agent"}},
        p \in {<< >>} \cup {"PORT" :> v : v \in {"8080", "http"}}}

\* The process as main() is entered: /tmp exists; the working directory is
\* writable (local development) or read-only (a container).
InitMain ==
    /\ Started
    /\ env \in Environments
    /\ mainPc = "start"
    /\ dirs = {<< >>, <<"/tmp">>}
    /\ roDirs \in {{}, {<< >>}}
    /\ entries = << >>
    /\ inodes = << >>
    /\ pyRollsEmpty \in BOOLEAN

\* server.py:73-74: the call of setup_file_logging; an exception leaves
\* main().
MainSetup ==
    /\ mainPc = "start"
    /\ SetupCall(Getenv(env, "LOG_LEVEL", "INFO"), MainLogDir(env), "app.log",
                 DefaultMaxBytes, DefaultBackupCount)
    /\ mainPc' = IF lastOp'.raised = "none" THEN "run" ELSE "crashed"
    /\ UNCHANGED <<pc, env, started>>

\* server.py:76-80: uvicorn.run(app, host, port), entered once its
\* arguments are evaluated.
MainRun ==
    /\ mainPc = "run"
    /\ IF PortRaises(env)
         THEN mainPc' = "crashed" /\ started' = started
         ELSE mainPc' = "serving" /\ started' = TRUE
    /\ UNCHANGED <<rootLevel, rootHandlers, dirs, roDirs, entries, inodes, stdout,
                   nSetups, nextId, pyRollsEmpty, levelArg, lastOp, pc, env>>

\* A log call made while a request is served.
MainServe(logger, levelno, len) ==
    /\ mainPc = "serving"
    /\ nextId <= MaxServeLogs
    /\ LogCall(logger, levelno, len)
    /\ UNCHANGED <<pc, env, mainPc, started>>

\* server.py:82: uvicorn.run returns when the server shuts down, and main()
\* returns.
MainReturn ==
    /\ mainPc = "serving"
    /\ mainPc' = "returned"
    /\ UNCHANGED <<rootLevel, rootHandlers, dirs, roDirs, entries, inodes, stdout,
                   nSetups, nextId, pyRollsEmpty, levelArg, lastOp, pc, env, started>>

NextMain ==
    \/ MainSetup
    \/ MainRun
    \/ \E logger \in Loggers, levelno \in Severities : MainServe(logger, levelno, 1)
    \/ MainReturn

SpecMain == InitMain /\ [][NextMain]_vars

\* =================================================================== claims
\* The level a call of setup_file_logging with argument a is to install.
Wanted(a) == IF a \in ValidLevels THEN CheckLevel(a) ELSE CheckLevel("INFO")

\* The step is a call of setup_file_logging.
SetupStep == nSetups' = nSetups + 1

\* The state setup_file_logging starts from.
Here ==
    [rootLevel |-> rootLevel, rootHandlers |-> rootHandlers, dirs |-> dirs,
     entries |-> entries, inodes |-> inodes, stdout |-> stdout]

\* The directory lies in or below a read-only directory.
UnderReadOnly(dir) == \E k \in 0..Len(dir) : SubSeq(dir, 1, k) \in roDirs

\* The file the handler's path names.
LogFile(h) == inodes[entries[BaseFile(h)]]

\* C1: after setup_file_logging(L, ...) with a valid level name L, a log
\* call of severity s on any logger is written to the log file if and only
\* if s is at or above L: a record is created exactly for those calls, every
\* handler of the root handles it, and the file D/F then holds it.
C1_LevelFilter ==
    (lastOp.op = "log" /\ levelArg \in ValidLevels) =>
        /\ lastOp.created <=> lastOp.levelno >= CheckLevel(levelArg)
        /\ lastOp.created =>
              \A i \in 1..Len(rootHandlers) :
                  /\ i \in lastOp.wrote
                  /\ lastOp.id \in Ids(LogFile(rootHandlers[i]))
        /\ ~lastOp.created => lastOp.wrote = {}

\* C1's case: at level WARNING an ERROR record of the child logger was
\* written, and (the other witness state) an INFO call was not.
C1_Witness ==
    /\ lastOp.op = "log" /\ levelArg = "WARNING" /\ lastOp.logger = "test_level"
    /\ lastOp.levelno = 40 /\ lastOp.created /\ 1 \in lastOp.wrote

\* C2, the state after the call: for a level string outside the five names
\* the call does not raise because of the level, prints exactly one line
\* naming the received value and the fallback 'INFO', and leaves the root at
\* level INFO; for one of the five names it prints nothing and the root has
\* that level.
C2_Outcome ==
    lastOp.op = "setup" =>
        IF lastOp.log_level \notin ValidLevels
          THEN /\ lastOp.raised # "ValueError"
               /\ lastOp.printed = 1
               /\ stdout[Len(stdout)] =
                      [received |-> lastOp.log_level, fallback |-> "INFO"]
               /\ lastOp.raised = "none" => rootLevel = CheckLevel("INFO")
          ELSE /\ lastOp.printed = 0
               /\ lastOp.raised = "none" => rootLevel = CheckLevel(lastOp.log_level)

\* C2, the step: a call with an invalid level string leaves the root logger
\* and the file system exactly as the same call with level "INFO" would.
C2_AsInfo ==
    (SetupStep /\ lastOp'.log_level \notin ValidLevels) =>
        LET r == SetupFileLogging("INFO", lastOp'.log_dir, lastOp'.log_filename,
                                  lastOp'.max_bytes, lastOp'.backup_count,
                                  Here, roDirs)
        IN /\ rootLevel' = r.rootLevel
           /\ rootHandlers' = r.rootHandlers
           /\ dirs' = r.dirs
           /\ entries' = r.entries
           /\ inodes' = r.inodes
           /\ lastOp'.raised = r.raised

C4_SoleHandler ==
    (lastOp.op = "setup" /\ lastOp.raised = "none") => Len(rootHandlers) = 1

\* C7, the states: every call here succeeds, so the root carries as many
\* handlers as there were calls; its level is that of the latest call; a
\* record is created by that level alone and every handler, the earlier
\* ones included, handles it.
C7_Stacked ==
    /\ Len(rootHandlers) = nSetups
    /\ levelArg # NoLevel => rootLevel = Wanted(levelArg)
    /\ (lastOp.op = "log" /\ levelArg # NoLevel) =>
          /\ lastOp.created <=> lastOp.levelno >= Wanted(levelArg)
          /\ lastOp.created => lastOp.wrote = 1..Len(rootHandlers)

\* C7, the step: a successful call appends one handler and removes none.
C7_Appends ==
    (SetupStep /\ lastOp'.raised = "none") =>
        /\ Len(rootHandlers') = Len(rootHandlers) + 1
        /\ SubSeq(rootHandlers', 1, Len(rootHandlers)) = rootHandlers
        /\ levelArg' = lastOp'.log_level

\* C7: setup_file_logging is not idempotent: handlers stack, the latest
\* level filters for all of them.
C7_NotIdempotent == []C7_Stacked /\ [][C7_Appends]_vars

\* C7's case: two calls, the second with level ERROR, and an ERROR record
\* handled by both handlers.
C7_Witness ==
    /\ Len(rootHandlers) = 2 /\ levelArg = "ERROR"
    /\ lastOp.op = "log" /\ lastOp.created /\ lastOp.wrote = {1, 2}

\* C5, the states: a call fails exactly when the directory cannot be
\* created or the file cannot be opened, and the failure reaches the caller
\* as raised; a call that succeeds has set the level and attached a handler
\* for its path.
C5_Surfaces ==
    lastOp.op = "setup" =>
        /\ lastOp.raised # "none" <=> UnderReadOnly(lastOp.log_dir)
        /\ lastOp.raised # "none" => lastOp.raised = "PermissionError"
        /\ lastOp.raised = "none" =>
              /\ rootLevel = Wanted(lastOp.log_level)
              /\ rootHandlers # << >>
              /\ rootHandlers[Len(rootHandlers)].dir = lastOp.log_dir

\* C5, the step: a call that fails leaves the root logger's level and
\* handler list as they were.
C5_Untouched ==
    (SetupStep /\ lastOp'.raised # "none") =>
        /\ rootLevel' = rootLevel
        /\ rootHandlers' = rootHandlers

\* C5: an I/O failure surfaces to the caller and the call is all or nothing
\* for the root logger.
C5_AllOrNothing == []C5_Surfaces /\ [][C5_Untouched]_vars

\* C5's case: after a successful call, a call whose directory cannot be
\* created has failed.
C5_Witness ==
    /\ lastOp.op = "setup" /\ lastOp.raised = "PermissionError"
    /\ lastOp.log_dir = <<"ro", "logs">> /\ rootHandlers # << >>

\* C6, the states: whatever of the path existed before, a call on a path
\* that is not read-only succeeds, and then the directory and all its
\* parents exist and the handler's file is log_dir/log_filename.
C6_DirectoryMade ==
    lastOp.op = "setup" =>
        /\ ~UnderReadOnly(lastOp.log_dir) => lastOp.raised = "none"
        /\ lastOp.raised = "none" =>
              LET h == rootHandlers[Len(rootHandlers)]
              IN /\ \A k \in 0..Len(lastOp.log_dir) :
                        SubSeq(lastOp.log_dir, 1, k) \in dirs
                 /\ BaseFile(h) = FileName(lastOp.log_dir, lastOp.log_filename, 0)
                 /\ Exists(entries, BaseFile(h))
                 /\ entries[BaseFile(h)] = h.stream

\* C6, the step: the call leaves every directory, every file name and every
\* file's contents in place.
C6_ContentsKept ==
    SetupStep =>
        /\ dirs \subseteq dirs'
        /\ \A f \in DOMAIN entries :
              /\ f \in DOMAIN entries'
              /\ entries'[f] = entries[f]
              /\ inodes'[entries[f]] = inodes[entries[f]]

\* C6: the directory is created with its parents, an existing one is no
\* error, and what it held is left in place.
C6_CreatesDirectory == []C6_DirectoryMade /\ [][C6_ContentsKept]_vars

\* C6's case: a call on the nested, missing directory t/logs has returned
\* while the directory logs of the earlier run still holds its files.
C6_Witness ==
    /\ lastOp.op = "setup" /\ lastOp.raised = "none"
    /\ lastOp.log_dir = <<"t", "logs">>
    /\ OtherFile \in DOMAIN entries

\* ----------------------------------------------------------------- rotation
\* No other handler in the list is bound to the path of handler i.
Unshared(handlers, i) ==
    \A j \in 1..Len(handlers) :
        j # i => BaseFile(handlers[j]) # BaseFile(handlers[i])

\* The names of the backups of h's file that exist in e.
Backups(h, e) == {f \in DOMAIN e : f[1] = h.dir /\ f[2] = h.fname /\ f[3] >= 1}

\* The ids of the records in h's file and its backups.
Kept(h, e, ino) ==
    UNION {Ids(ino[e[f]]) : f \in {g \in DOMAIN e : g[1] = h.dir /\ g[2] = h.fname}}

\* The step is a log call that created a record.
RecordStep == nextId' = nextId + 1

\* C3 as stated: whenever a record has been written through a handler with
\* maxBytes = B > 0 and backupCount = N, the active file holds at most B
\* bytes and at most N backups exist.
C3_Bounded ==
    lastOp.op = "log" =>
        \A i \in lastOp.wrote :
            LET h == rootHandlers[i]
            IN (Unshared(rootHandlers, i) /\ h.maxBytes > 0) =>
                  /\ Size(LogFile(h)) <= h.maxBytes
                  /\ Cardinality(Backups(h, entries)) <= h.backupCount

\* C3 amended, the states: with B > 0 and N >= 1, after every write the
\* active file is smaller than B bytes or holds only the record just
\* written.
C3_ActiveSmall ==
    lastOp.op = "log" =>
        \A i \in lastOp.wrote :
            LET h == rootHandlers[i]
            IN (Unshared(rootHandlers, i) /\ h.maxBytes > 0 /\ h.backupCount >= 1) =>
                  \/ Size(LogFile(h)) < h.maxBytes
                  \/ LogFile(h) = <<[id |-> lastOp.id, len |-> lastOp.len]>>

\* C3 amended, the step: no backup is created with a number above the
\* backupCount of a handler of its path.
C3_NoBackupBeyond ==
    \A f \in DOMAIN entries' \ DOMAIN entries :
        f[3] >= 1 =>
            \E i \in 1..Len(rootHandlers) :
                /\ rootHandlers[i].dir = f[1]
                /\ rootHandlers[i].fname = f[2]
                /\ f[3] <= rootHandlers[i].backupCount

\* C3 amended: the active file stays below maxBytes except for a single
\* oversized record, and backups numbered above backupCount are never
\* created.
C3_RotationBounds == []C3_ActiveSmall /\ [][C3_NoBackupBeyond]_vars

\* C3's case: with maxBytes 3 and backupCount 2, a record of 4 bytes was
\* written after a rotation and both backups exist.
C3_Witness ==
    /\ lastOp.op = "log" /\ lastOp.rolled = {1} /\ lastOp.len = 4
    /\ rootHandlers[1].maxBytes = 3 /\ rootHandlers[1].backupCount = 2
    /\ Cardinality(Backups(rootHandlers[1], entries)) >= 2

\* The rotation of C8 for handler i in a step that rolled its file over:
\* the active file became name.1, each backup k below backupCount became
\* k + 1, no backup got a number above backupCount, and the active file is
\* a new one holding the record just written.
Rotated(i) ==
    LET h == rootHandlers[i]
        name(k) == FileName(h.dir, h.fname, k)
    IN /\ Exists(entries', name(1))
       /\ entries'[name(1)] = entries[name(0)]
       /\ \A k \in 1..(h.backupCount - 1) :
              Exists(entries, name(k)) =>
                  /\ Exists(entries', name(k + 1))
                  /\ entries'[name(k + 1)] = entries[name(k)]
       /\ \A f \in Backups(h, entries') \ Backups(h, entries) : f[3] <= h.backupCount
       /\ entries'[name(0)] \notin {entries[f] : f \in DOMAIN entries}
       /\ inodes'[entries'[name(0)]] = <<[id |-> lastOp'.id, len |-> lastOp'.len]>>

\* C8 as stated, the step: on each rotation, whatever backupCount is.
C8_RotatesAlways ==
    RecordStep =>
        \A i \in lastOp'.rolled : Unshared(rootHandlers, i) => Rotated(i)

\* C8 as stated.
C8_Rotation == [][C8_RotatesAlways]_vars

\* C8 amended, the step: on each rotation of a handler with
\* backupCount >= 1.
C8_Rotates ==
    RecordStep =>
        \A i \in lastOp'.rolled :
            (Unshared(rootHandlers, i) /\ rootHandlers[i].backupCount >= 1) =>
                Rotated(i)

\* C8, the states: every record in the active file is newer than every
\* record in a backup, and every record in name.k newer than every record in
\* a backup with a higher number.
C8_Ordered ==
    \A i \in 1..Len(rootHandlers) :
        Unshared(rootHandlers, i) =>
            \A f, g \in {x \in DOMAIN entries : x[1] = rootHandlers[i].dir
                                               /\ x[2] = rootHandlers[i].fname} :
                f[3] < g[3] =>
                    \A a \in Ids(inodes[entries[f]]), b \in Ids(inodes[entries[g]]) :
                        a > b

\* C8, the step: the only records that leave the file and its backups are
\* those of the backup numbered backupCount.
C8_LosesOnlyLast ==
    \A i \in 1..Len(rootHandlers) :
        LET h == rootHandlers[i]
            last == FileName(h.dir, h.fname, h.backupCount)
        IN Unshared(rootHandlers, i) =>
              Kept(h, entries, inodes) \ Kept(h, entries', inodes') \subseteq
                  (IF h.backupCount >= 1 /\ Exists(entries, last)
                     THEN Ids(inodes[entries[last]]) ELSE {})

\* C8 amended: with backupCount >= 1 a rotation shifts the files as
\* described; records are ordered across the files and lost only with the
\* last backup.
C8_RotationShifts ==
    []C8_Ordered /\ [][C8_Rotates /\ C8_LosesOnlyLast]_vars

\* C8's case: a rotation with backupCount 2 that discarded the oldest
\* backup.
C8_Witness ==
    /\ lastOp.op = "log" /\ lastOp.rolled = {1}
    /\ rootHandlers[1].backupCount = 2
    /\ lastOp.removed = {FileName(<<"logs">>, "app.log", 2)}
    /\ Cardinality(Backups(rootHandlers[1], entries)) >= 2

\* ------------------------------------------------------------- concurrency
\* Task t is inside Handler.handle of handler i, between acquire and
\* release.
Handling(t, i) == pc[t].i = i /\ pc[t].at \in {"check", "roll", "write", "release"}

RECURSIVE Count(_, _)
\* How often the record with this id occurs in a file.
Count(id, content) ==
    IF content = << >> THEN 0
    ELSE (IF Head(content).id = id THEN 1 ELSE 0) + Count(id, Tail(content))

RECURSIVE CountAll(_, _)
\* How often the record occurs in all files, removed ones included.
CountAll(id, files) ==
    IF files = << >> THEN 0 ELSE Count(id, Head(files)) + CountAll(id, Tail(files))

\* How many handlers have written task t's record.
WrittenBy(t) ==
    IF pc[t].at \in {"acquire", "check", "roll", "write"} THEN pc[t].i - 1 ELSE pc[t].i

\* C9: under every interleaving of the tasks' log calls, at most one task is
\* inside a handler's emit (so no rotation happens during another task's
\* write), a write goes to a file whose size was checked for this very
\* record, and each record is in the files exactly once per handler that
\* has written it.
C9_Serialized ==
    /\ \A i \in 1..Len(rootHandlers) :
          \A t, u \in Tasks : (Handling(t, i) /\ Handling(u, i)) => t = u
    /\ \A t \in Tasks :
          (pc[t].at = "roll") =>
              \A u \in Tasks \ {t} : ~Handling(u, pc[t].i)
    /\ \A t \in Tasks :
          (pc[t].at = "write" /\ ~pc[t].roll) =>
              ~ShouldRollover(rootHandlers[pc[t].i], pc[t].rec.len, inodes,
                              pyRollsEmpty)
    /\ \A t \in Tasks :
          pc[t].at # "idle" => CountAll(pc[t].rec.id, inodes) = WrittenBy(t)
    /\ \A id \in 1..(nextId - 1) :
          (\A t \in Tasks : pc[t].rec.id # id) =>
              CountAll(id, inodes) = Len(rootHandlers)

\* C9's case: one task has rolled the file over and is about to write while
\* the other waits for the handler's lock.
C9_Witness ==
    \E t, u \in Tasks :
        /\ pc[t].at = "write" /\ pc[t].roll
        /\ pc[u].at = "acquire" /\ pc[u].i = pc[t].i
        /\ rootHandlers[pc[t].i].lock = t

\* -------------------------------------------------------------------- main
\* What C10 says of main() apart from the log directory: logging is set up
\* at most once and, when the server has been started, exactly once and
\* successfully before; the level passed is LOG_LEVEL, or INFO when it is
\* unset; a failed setup leaves the server unstarted.
C10_Order ==
    /\ nSetups <= 1
    /\ started => (nSetups = 1 /\ levelArg # NoLevel /\ Len(rootHandlers) = 1)
    /\ mainPc = "start" => (nSetups = 0 /\ ~started)
    /\ (lastOp.op = "setup" /\ lastOp.raised # "none") => (~started /\ mainPc = "crashed")
    /\ lastOp.op = "setup" =>
          lastOp.log_level =
              (IF "LOG_LEVEL" \in DOMAIN env THEN env["LOG_LEVEL"] ELSE "INFO")

\* C10 as stated: the log directory is '/tmp' when K_SERVICE is set and
\* '.log' otherwise.
C10_AsStated ==
    /\ C10_Order
    /\ lastOp.op = "setup" =>
          lastOp.log_dir =
              (IF "K_SERVICE" \in DOMAIN env THEN <<"/tmp">> ELSE <<".log">>)

\* C10 amended: the log directory is '/tmp' when K_SERVICE is set to a
\* non-empty value and '.log' otherwise (unset or empty).
C10_SetupBeforeServing ==
    /\ C10_Order
    /\ lastOp.op = "setup" =>
          lastOp.log_dir =
              (IF "K_SERVICE" \in DOMAIN env /\ env["K_SERVICE"] # ""
                 THEN <<"/tmp">> ELSE <<".log">>)

\* C10's case: with K_SERVICE set, the server runs and a request's record
\* went to the handler on /tmp.
C10_Witness ==
    /\ started /\ mainPc = "serving"
    /\ "K_SERVICE" \in DOMAIN env
    /\ lastOp.op = "log" /\ lastOp.created
    /\ rootHandlers[1].dir = <<"/tmp">>

====
